---- MODULE Spec2Model ----
(***************************************************************************)
(* Model of dmiid.sysfsattr.ReadonlySysFsAttrDict: a read-only mapping     *)
(* over a directory of text attribute files, with a value cache (data), a  *)
(* file name snapshot (_fname_cache) and read-through / bypass / refresh   *)
(* lookups.  Keys and file texts are sequences of one-character strings.   *)
(***************************************************************************)
EXTENDS Integers, Sequences, FiniteSets, TLC

VARIABLES
    fs,            \* the files below root: path -> Absent | Unreadable | text;
                   \* the path "" is root itself, where root comes and goes
    data,          \* self.data: normalized key -> deserialized value
    fname_cache,   \* self._fname_cache: names found directly in root
    last,          \* the most recent call on the mapping and its outcome
    got,           \* history: key -> value a successful __getitem__ returned,
                   \* kept until drop(key), clear() or a refresh read of key
    notfound,      \* history: keys whose most recent read raised KeyError
    nchanges,      \* number of filesystem changes made so far
    nin,           \* input of the normalize_key study
    nout,          \* the keys obtained by normalizing nin once, twice
    cls,           \* the class of the mapping, which fixes deserialize_value
    frame,         \* the _getitem call that is running, and where it stands
    handles        \* number of file handles the mapping holds open

vars ==
    <<fs, data, fname_cache, last, got, notfound, nchanges, nin, nout, cls,
      frame, handles>>

-----------------------------------------------------------------------------
(* Bounds *)

MaxFsChanges == 1      \* filesystem changes per behaviour
MaxLen == 3            \* length of the raw keys of the normalize_key study
MaxAttrs == 2          \* keys passed to one get_attributes call

-----------------------------------------------------------------------------
(* Strings *)

sep == "/"             \* os.path.sep (posix)
curdir == "."
Whitespace == {" ", "\n", "\t"}

\* str.lstrip(chars)
RECURSIVE lstrip(_, _)
lstrip(s, c) ==
    IF s # <<>> /\ Head(s) = c THEN lstrip(Tail(s), c) ELSE s

\* str.rstrip()
RECURSIVE rstrip(_)
rstrip(s) ==
    IF s # <<>> /\ s[Len(s)] \in Whitespace
    THEN rstrip(SubSeq(s, 1, Len(s) - 1))
    ELSE s

\* str.split(sep): the components between separators, empty ones included
RECURSIVE split(_, _, _)
split(s, cur, acc) ==
    IF s = <<>> THEN Append(acc, cur)
    ELSE IF Head(s) = sep THEN split(Tail(s), <<>>, Append(acc, cur))
    ELSE split(Tail(s), Append(cur, Head(s)), acc)

\* sep.join(comps)
RECURSIVE join(_)
join(comps) ==
    IF comps = <<>> THEN <<>>
    ELSE IF Len(comps) = 1 THEN comps[1]
    ELSE comps[1] \o <<sep>> \o join(Tail(comps))

startswith(s, p) == Len(s) >= Len(p) /\ SubSeq(s, 1, Len(p)) = p

\* the component loop of posixpath.normpath
RECURSIVE normcomps(_, _, _)
normcomps(comps, new_comps, initial_slashes) ==
    IF comps = <<>> THEN new_comps
    ELSE LET comp == Head(comps)
             dotdot == <<curdir, curdir>>
         IN  IF comp = <<>> \/ comp = <<curdir>>
             THEN normcomps(Tail(comps), new_comps, initial_slashes)
             ELSE IF \/ comp # dotdot
                     \/ (initial_slashes = 0 /\ new_comps = <<>>)
                     \/ (new_comps # <<>> /\ new_comps[Len(new_comps)] = dotdot)
             THEN normcomps(Tail(comps), Append(new_comps, comp), initial_slashes)
             ELSE IF new_comps # <<>>
             THEN normcomps(Tail(comps),
                            SubSeq(new_comps, 1, Len(new_comps) - 1),
                            initial_slashes)
             ELSE normcomps(Tail(comps), new_comps, initial_slashes)

\* os.path.normpath (posix)
normpath(path) ==
    IF path = <<>> THEN <<curdir>>
    ELSE LET initial_slashes ==
                 IF ~startswith(path, <<sep>>) THEN 0
                 ELSE IF startswith(path, <<sep, sep>>)
                         /\ ~startswith(path, <<sep, sep, sep>>) THEN 2
                 ELSE 1
             joined == join(normcomps(split(path, <<>>, <<>>), <<>>, initial_slashes))
             p == IF initial_slashes = 2 THEN <<sep, sep>> \o joined
                  ELSE IF initial_slashes = 1 THEN <<sep>> \o joined
                  ELSE joined
         IN  IF p = <<>> THEN <<curdir>> ELSE p

\* ReadonlySysFsAttrDict.normalize_key
normalize_key(attr_key) == lstrip(normpath(attr_key), sep)

\* ReadonlySysFsAttrDict.deserialize_value
deserialize_value(attr_normkey, text) ==
    IF text # <<>> THEN rstrip(text) ELSE text

\* str.strip()
RECURSIVE strip(_)
strip(s) ==
    IF s # <<>> /\ Head(s) \in Whitespace THEN strip(Tail(s)) ELSE rstrip(s)

\* str.splitlines(), for texts whose only line boundary is "\n"
RECURSIVE splitlines(_, _, _)
splitlines(s, cur, acc) ==
    IF s = <<>> THEN (IF cur = <<>> THEN acc ELSE Append(acc, cur))
    ELSE IF Head(s) = "\n" THEN splitlines(Tail(s), <<>>, Append(acc, cur))
    ELSE splitlines(Tail(s), Append(cur, Head(s)), acc)

\* "\n".join(filter(None, lines))
RECURSIVE joinlines(_)
joinlines(lines) ==
    IF lines = <<>> THEN <<>>
    ELSE IF Head(lines) = <<>> THEN joinlines(Tail(lines))
    ELSE LET rest == joinlines(Tail(lines))
         IN  IF rest = <<>> THEN Head(lines) ELSE Head(lines) \o <<"\n">> \o rest

UpperCase == <<"A", "B", "C", "D", "E", "F", "G", "H", "I", "J", "K", "L", "M",
               "N", "O", "P", "Q", "R", "S", "T", "U", "V", "W", "X", "Y", "Z">>
LowerCase == <<"a", "b", "c", "d", "e", "f", "g", "h", "i", "j", "k", "l", "m",
               "n", "o", "p", "q", "r", "s", "t", "u", "v", "w", "x", "y", "z">>

\* str.lower(), as re.I folds case
lower(s) ==
    [i \in 1..Len(s) |->
        IF \E j \in 1..26 : UpperCase[j] = s[i]
        THEN LowerCase[CHOOSE j \in 1..26 : UpperCase[j] = s[i]]
        ELSE s[i]]

\* DMIIDInfo.RE_NONE_CATCH_PHRASES, the alternatives in lower case
NoneCatchPhrases ==
    {<<"n", "o", "t", " ", "a", "v", "a", "i", "l", "a", "b", "l", "e">>,
     <<"t", "o", " ", "b", "e", " ", "f", "i", "l", "l", "e", "d">>,
     <<"d", "m", "i", " ", "t", "a", "b", "l", "e", " ", "i", "s", " ", "b", "r", "o", "k", "e", "n">>}

\* RE_NONE_CATCH_PHRASES.match(val) is not None: match tries the start of val
\* only, so with re.M "^" still matches at position 0 alone
MatchesNoneCatchPhrase(val) ==
    \E p \in NoneCatchPhrases : startswith(lower(val), p)

None == <<"<None>">>              \* Python's None

\* [l.strip() for l in lines]
striplines(lines) == [i \in DOMAIN lines |-> strip(lines[i])]

\* DMIIDInfo.deserialize_value, from val on
none_or(val) == IF MatchesNoneCatchPhrase(val) THEN None ELSE val

\* DMIIDInfo.deserialize_value
DMIIDInfo_deserialize_value(attr_normkey, text) ==
    none_or(joinlines(striplines(splitlines(text, <<>>, <<>>))))

\* self.deserialize_value: the method of the mapping's class (DMIInfo
\* inherits that of DMIIDInfo)
self_deserialize_value(attr_normkey, text) ==
    IF cls \in {"DMIIDInfo", "DMIInfo"} THEN DMIIDInfo_deserialize_value(attr_normkey, text)
    ELSE deserialize_value(attr_normkey, text)

-----------------------------------------------------------------------------
(* The filesystem below root *)

ka == <<"a">>
kb == <<"b">>
kc == <<"c">>
kda == <<"d", "/", "a">>
kab == <<"a", "/", "b">>
kroot == <<>>                     \* os.path.join(root, ""): root itself
kvendor == <<"v", "e", "n", "d", "o", "r">>
kserial == <<"s", "e", "r", "i", "a", "l">>

Absent == <<"<absent>">>          \* no such file
Unreadable == <<"<unreadable>">>  \* the file exists, opening it is denied
Directory == <<"<dir>">>          \* a directory
NotADirectory == <<"<notdir>">>   \* a path through something that is no directory
Texts == {<<"v", "\n">>, <<"w">>}
FileStates == {Absent, Unreadable} \cup Texts

\* what root can be: a directory, nothing, or a regular file
RootStates == {Directory, Absent, <<"w">>}
StatesOf(n) == IF n = kroot THEN RootStates ELSE FileStates

Fallback == <<"<F>">>             \* a fallback value the caller passes

HasSep(key) == \E i \in 1..Len(key) : key[i] = sep

\* what root is: a directory, unless f tells
RootState(f) == IF kroot \in DOMAIN f THEN f[kroot] ELSE Directory

\* the regular files f places below root
Files(f) == {n \in (DOMAIN f) \ {kroot} : f[n] # Absent}

\* path is a directory below root: one that holds a file
IsDir(f, path) ==
    \E n \in Files(f) :
        Len(n) > Len(path) /\ SubSeq(n, 1, Len(path) + 1) = path \o <<sep>>

\* the names of the entries directly in root, files and directories
Children(f) ==
    IF RootState(f) # Directory THEN {}
    ELSE {n \in Files(f) : ~HasSep(n)}
         \cup {split(n, <<>>, <<>>)[1] : n \in {m \in Files(f) : HasSep(m)}}

Range(s) == {s[i] : i \in DOMAIN s}

\* the components that name no entry: empty, "." and ".."
DotNames == {<<>>, <<curdir>>, <<curdir, curdir>>}

\* what the path below root is that the components cur name: root itself, a
\* directory, a file in its state, or nothing
StateAt(f, cur) ==
    IF cur = <<>> THEN Directory
    ELSE IF join(cur) \in Files(f) THEN f[join(cur)]
    ELSE IF IsDir(f, join(cur)) THEN Directory
    ELSE Absent

\* Path resolution as the kernel does it, from the directory at cur through
\* the components comps: "" and "." stay, ".." goes up, a name goes down, and
\* each step needs a directory to start from.  Above root the model knows the
\* directories that lead to root and nothing else.
RECURSIVE walk(_, _, _)
walk(f, comps, cur) ==
    IF comps = <<>> THEN StateAt(f, cur)
    ELSE IF StateAt(f, cur) = Absent THEN Absent
    ELSE IF StateAt(f, cur) # Directory THEN NotADirectory
    ELSE IF Head(comps) \in {<<>>, <<curdir>>} THEN walk(f, Tail(comps), cur)
    ELSE IF Head(comps) = <<curdir, curdir>>
    THEN IF cur # <<>>
         THEN walk(f, Tail(comps), SubSeq(cur, 1, Len(cur) - 1))
         ELSE IF \A c \in Range(comps) : c \in DotNames
         THEN Directory
         ELSE Absent
    ELSE walk(f, Tail(comps), Append(cur, Head(comps)))

\* What os.path.join(root, attr_normkey) is.  f maps the paths of the regular
\* files that come and go below root to their state; os.path.join(root, "")
\* and os.path.join(root, ".") both name root itself, and a key that begins
\* with a separator replaces root: it names the filesystem root, by any
\* spelling, or a path the model holds no file at.  Below a root that is missing there is
\* nothing (ENOENT); a root that is a regular file makes every path through
\* it fail with ENOTDIR.
Lookup(f, attr_normkey) ==
    IF startswith(attr_normkey, <<sep>>)
    THEN (IF \A c \in Range(split(attr_normkey, <<>>, <<>>)) : c \in DotNames
          THEN Directory ELSE Absent)
    ELSE IF RootState(f) = Absent THEN Absent
    ELSE IF RootState(f) # Directory THEN NotADirectory
    ELSE IF attr_normkey \in {kroot, <<curdir>>} THEN Directory
    ELSE IF attr_normkey \in DOMAIN f THEN f[attr_normkey]
    ELSE walk(f, split(attr_normkey, <<>>, <<>>), <<>>)

\* os.path.isfile(self.get_fspath(attr_normkey))
isfile(f, attr_normkey) ==
    Lookup(f, attr_normkey) \notin {Absent, Directory, NotADirectory}

\* a bug: the names a missing root held before are listed
_get_filename_cache_no_root_check(f) == {n \in Files(f) : ~HasSep(n)}

\* ReadonlySysFsAttrDict._get_filename_cache: the file names of the first
\* directory os.walk yields, root; os.walk yields nothing when root is
\* missing or is no directory
_get_filename_cache(f) ==
    IF RootState(f) = Directory THEN {n \in Files(f) : ~HasSep(n)} ELSE {}

-----------------------------------------------------------------------------
(* Inputs *)

KeyChars == {"a", "b", sep, curdir}

\* every raw key of at most MaxLen characters
AllRawKeys == UNION {[1..n -> KeyChars] : n \in 0..MaxLen}

\* raw keys by which the file b, the file a/b, the directory a, root and its
\* parent can be spelled, and names of nothing
PublicRawKeys ==
    {<<"b">>, <<"/", "b">>, <<".", "/", "b">>, <<"b", "/">>, <<"b", "/", ".">>,
     <<"/", "/", "b">>, <<"a", "/", "b">>, <<"a", "/", "/", "b">>,
     <<"a", "/", ".", "/", "b">>, <<"/", "a", "/", "b">>, <<".", "/", "a", "/", "b">>,
     <<"a", "/", ".", ".", "/", "b">>, <<"a", "/", "b", "/", ".", ".">>,
     <<"a", "/", "b", "/", ".", ".", "/", "b">>, <<"a", "/", "b", "/">>,
     <<"a">>, <<"a", "/">>, <<"/">>, <<"/", "/">>, <<>>, <<".">>, <<".", ".">>,
     <<".", ".", "/", "b">>, <<"a", "/", ".", ".">>, <<"a", "b">>,
     <<".", "/", ".">>}

\* raw keys the callers of the mapping pass: the paths of the files, a
\* redundant spelling of one, and a key of separators only
RawKeys(f) == (DOMAIN f) \cup {<<sep, "a">>, <<sep>>}

\* normalize_key on the callers' raw keys, computed once
normalized ==
    [r \in {kroot, ka, kb, kc, kda, <<sep, "a">>, <<sep>>,
            kvendor, kserial, <<sep>> \o kvendor} \cup PublicRawKeys |->
        normalize_key(r)]

\* a bug: the raw key is used as it is
Normalize_raw(attr_key) == attr_key

\* the lists of at most MaxAttrs keys out of K
KeyLists(K) == UNION {[1..n -> K] : n \in 0..MaxAttrs}

Normalize(attr_key) ==
    IF attr_key \in DOMAIN normalized THEN normalized[attr_key]
    ELSE normalize_key(attr_key)

-----------------------------------------------------------------------------
(* The cache and the read-through primitive *)

NotCached == <<"<not cached>">>   \* marks "no entry" where an entry is recorded
NoValue == <<"<no value>">>       \* marks "nothing returned"

Cached(d, k) == IF k \in DOMAIN d THEN d[k] ELSE NotCached

\* a bug: every entry is removed
_drop_all(d, attr_normkey) == << >>

\* a bug _drop could have: nothing is removed
_drop_nothing(d, attr_normkey) == d

\* ReadonlySysFsAttrDict._drop: del self.data[attr_normkey], KeyError ignored
_drop(d, attr_normkey) == [x \in (DOMAIN d) \ {attr_normkey} |-> d[x]]

\* a bug: storing a value evicts every other entry
setitem_alone(d, attr_normkey, value) == [x \in {attr_normkey} |-> value]

\* self.data[attr_normkey] = value
setitem(d, attr_normkey, value) ==
    [x \in (DOMAIN d) \cup {attr_normkey} |->
        IF x = attr_normkey THEN value ELSE d[x]]

\* ReadonlySysFsAttrDict._read_attr: open, read, deserialize.  err is the
\* errno of the IOError/OSError raised, "" when the read succeeded.
\* _read_attr_of tells it by st, what root/attr_normkey is.
_read_attr_of(attr_normkey, st) ==
    IF st = Absent THEN [err |-> "ENOENT", value |-> NoValue]
    ELSE IF st = Unreadable THEN [err |-> "EACCES", value |-> NoValue]
    ELSE IF st = Directory THEN [err |-> "EISDIR", value |-> NoValue]
    ELSE IF st = NotADirectory THEN [err |-> "ENOTDIR", value |-> NoValue]
    ELSE [err |-> "", value |-> self_deserialize_value(attr_normkey, st)]

_read_attr(f, attr_normkey) ==
    _read_attr_of(attr_normkey, Lookup(f, attr_normkey))

\* a bug: the cache is never consulted
_getitem_lookup_never(d, attr_normkey, bypass, refresh) ==
    [hit |-> FALSE, data |-> IF refresh THEN _drop(d, attr_normkey) ELSE d]

\* a bug: bypass drops the entry as refresh does
_getitem_lookup_bypass_drops(d, attr_normkey, bypass, refresh) ==
    IF refresh \/ bypass THEN [hit |-> FALSE, data |-> _drop(d, attr_normkey)]
    ELSE IF attr_normkey \in DOMAIN d THEN [hit |-> TRUE, data |-> d]
    ELSE [hit |-> FALSE, data |-> d]

\* a bug: refresh skips the cache and leaves the entry where it is
_getitem_lookup_keeps(d, attr_normkey, bypass, refresh) ==
    IF ~refresh /\ ~bypass /\ attr_normkey \in DOMAIN d
    THEN [hit |-> TRUE, data |-> d]
    ELSE [hit |-> FALSE, data |-> d]

\* a bug: refresh is ignored, the cached value is returned
_getitem_lookup_stale(d, attr_normkey, bypass, refresh) ==
    IF ~bypass /\ attr_normkey \in DOMAIN d
    THEN [hit |-> TRUE, data |-> d]
    ELSE [hit |-> FALSE, data |-> d]

\* _getitem, "drop or return cached?": whether the cached value is returned
\* (hit), and self.data after the step
_getitem_lookup(d, attr_normkey, bypass, refresh) ==
    IF refresh THEN [hit |-> FALSE, data |-> _drop(d, attr_normkey)]
    ELSE IF ~bypass /\ attr_normkey \in DOMAIN d
    THEN [hit |-> TRUE, data |-> d]
    ELSE [hit |-> FALSE, data |-> d]

\* a bug: a bypass read is stored too
_getitem_store_always(d, attr_normkey, value, bypass) ==
    setitem(d, attr_normkey, value)

\* _getitem, after a successful read: if not bypass, store the value
_getitem_store(d, attr_normkey, value, bypass) ==
    IF ~bypass THEN setitem(d, attr_normkey, value) ELSE d

\* a bug: nofail is ignored, every read error but ENOENT is raised
_getitem_error_raises(err, nofail, nofail_fallback) ==
    IF err = "ENOENT" THEN [kind |-> "KeyError", val |-> NoValue]
    ELSE [kind |-> "IOError", val |-> NoValue]

\* _getitem, "except ( IOError, OSError ) as err": the outcome of a failed read
_getitem_error(err, nofail, nofail_fallback) ==
    IF err = "ENOENT" THEN [kind |-> "KeyError", val |-> NoValue]
    ELSE IF nofail THEN [kind |-> "value", val |-> nofail_fallback]
    ELSE [kind |-> "IOError", val |-> NoValue]

\* _getitem, "try read from fs": the outcome of the read r, made after the
\* lookup c
_getitem_read(c, r, attr_normkey, bypass, nofail, nofail_fallback) ==
    IF r.err # ""
    THEN [kind |-> _getitem_error(r.err, nofail, nofail_fallback).kind,
          val |-> _getitem_error(r.err, nofail, nofail_fallback).val,
          data |-> c.data, reads |-> 1, err |-> r.err]
    ELSE [kind |-> "value", val |-> r.value,
          data |-> _getitem_store(c.data, attr_normkey, r.value, bypass),
          reads |-> 1, err |-> ""]

\* _getitem after the lookup c
_getitem_from(c, f, attr_normkey, bypass, nofail, nofail_fallback) ==
    IF c.hit
    THEN [kind |-> "value", val |-> c.data[attr_normkey],
          data |-> c.data, reads |-> 0, err |-> ""]
    ELSE _getitem_read(c, _read_attr(f, attr_normkey), attr_normkey,
                       bypass, nofail, nofail_fallback)

\* ReadonlySysFsAttrDict._getitem.  The result holds the outcome (kind: "value",
\* "KeyError" or "IOError"), the value returned, self.data afterwards, the
\* number of filesystem reads made and the errno of a failed read.
_getitem(d, f, attr_normkey, bypass, refresh, nofail, nofail_fallback) ==
    _getitem_from(_getitem_lookup(d, attr_normkey, bypass, refresh),
                  f, attr_normkey, bypass, nofail, nofail_fallback)

\* a bug: KeyError is not caught
_get_keyerror_propagates(d, f, attr_normkey, fallback, nofail) ==
    _getitem(d, f, attr_normkey, FALSE, FALSE, nofail, None)

\* _get, "except KeyError: return fallback", on the outcome r of _getitem
_get_except(r, fallback) ==
    IF r.kind = "KeyError" THEN [r EXCEPT !.kind = "value", !.val = fallback]
    ELSE r

\* ReadonlySysFsAttrDict._get, with the keyword argument nofail and the default
\* nofail_fallback (None): _getitem, with KeyError turned into fallback
_get(d, f, attr_normkey, fallback, nofail) ==
    _get_except(_getitem(d, f, attr_normkey, FALSE, FALSE, nofail, None),
                fallback)

\* the outcome of an iteration that yielded (attr_normkey, r.val) and then went
\* on to the outcome rest
yielded(attr_normkey, r, rest) ==
    [kind |-> rest.kind,
     items |-> IF rest.kind = "value"
               THEN <<(<<attr_normkey, r.val>>)>> \o rest.items ELSE <<>>,
     data |-> rest.data, reads |-> r.reads + rest.reads, err |-> rest.err]

\* the outcome of an iteration that ended with the exception r stands for
raised(r) ==
    [kind |-> r.kind, items |-> <<>>, data |-> r.data, reads |-> r.reads,
     err |-> r.err]

\* ReadonlySysFsAttrDict._iget_attributes_v, consumed to its end: the pairs
\* yielded, in the order of attr_normkeys.  An exception that _get lets
\* through ends the iteration: kind tells which, no list is returned, and
\* self.data keeps what the keys before the failing one stored.
RECURSIVE _iget_attributes_v(_, _, _, _)

\* a bug: a key that was yielded before is skipped
_iget_attributes_v_from_once(r, f, attr_normkeys, nofail) ==
    IF r.kind # "value" THEN raised(r)
    ELSE yielded(Head(attr_normkeys), r,
                 _iget_attributes_v(
                     r.data, f,
                     SelectSeq(Tail(attr_normkeys),
                               LAMBDA x : x # Head(attr_normkeys)),
                     nofail))

\* _iget_attributes_v from r on, the outcome of _get for the first of
\* attr_normkeys: yield it and go on with the next key
_iget_attributes_v_from(r, f, attr_normkeys, nofail) ==
    IF r.kind # "value" THEN raised(r)
    ELSE yielded(Head(attr_normkeys), r,
                 _iget_attributes_v(r.data, f, Tail(attr_normkeys), nofail))

_iget_attributes_v(d, f, attr_normkeys, nofail) ==
    IF attr_normkeys = <<>>
    THEN [kind |-> "value", items |-> <<>>, data |-> d, reads |-> 0, err |-> ""]
    ELSE _iget_attributes_v_from(
             _get(d, f, Head(attr_normkeys), None, nofail),
             f, attr_normkeys, nofail)

\* ReadonlySysFsAttrDict.iget_attributes: map(self.normalize_key, attr_keys)
iget_attributes(d, f, attr_keys, nofail) ==
    _iget_attributes_v(d, f,
                       [i \in DOMAIN attr_keys |-> Normalize(attr_keys[i])],
                       nofail)

\* ReadonlySysFsAttrDict.get_attributes: list(self.iget_attributes(...))
get_attributes(d, f, attr_keys, nofail) == iget_attributes(d, f, attr_keys, nofail)

\* a bug: the file is probed for a key without separator too
__contains___probes(d, fc, f, attr_key) ==
    IF Normalize(attr_key) \in DOMAIN d THEN [val |-> TRUE, reads |-> 0]
    ELSE IF Normalize(attr_key) \in fc THEN [val |-> TRUE, reads |-> 0]
    ELSE [val |-> isfile(f, Normalize(attr_key)), reads |-> 1]

\* __contains__ for the normalized key
contains_normkey(d, fc, f, attr_normkey) ==
    IF attr_normkey \in DOMAIN d THEN [val |-> TRUE, reads |-> 0]
    ELSE IF attr_normkey \in fc THEN [val |-> TRUE, reads |-> 0]
    ELSE IF HasSep(attr_normkey)
         THEN [val |-> isfile(f, attr_normkey), reads |-> 1]
    ELSE [val |-> FALSE, reads |-> 0]

\* ReadonlySysFsAttrDict.__contains__: the answer and the number of
\* filesystem probes made
__contains__(d, fc, f, attr_key) ==
    contains_normkey(d, fc, f, Normalize(attr_key))

\* a bug keys could have: the file name snapshot is left out
keys_data_only(d, fc) == DOMAIN d

\* ReadonlySysFsAttrDict.keys
keys(d, fc) == (DOMAIN d) \cup fc

\* ReadonlySysFsAttrDict.__len__
__len__(d, fc) == Cardinality(keys(d, fc))

\* a bug __bool__ could have: only the value cache is looked at
__bool___data_only(d, fc) == DOMAIN d # {}

\* ReadonlySysFsAttrDict.__bool__
__bool__(d, fc) == (DOMAIN d # {}) \/ (fc # {})

\* the code points of the characters, in ascending order
CharOrder == <<"\t", "\n", " ", curdir, sep>> \o UpperCase \o LowerCase
ord(c) == CHOOSE i \in DOMAIN CharOrder : CharOrder[i] = c

\* s < t on str
RECURSIVE StrLess(_, _)
StrLess(s, t) ==
    IF t = <<>> THEN FALSE
    ELSE IF s = <<>> THEN TRUE
    ELSE IF Head(s) # Head(t) THEN ord(Head(s)) < ord(Head(t))
    ELSE StrLess(Tail(s), Tail(t))

\* the orders in which a set can be iterated
Orders(S) ==
    {o \in [1..Cardinality(S) -> S] :
        \A i, j \in 1..Cardinality(S) : i # j => o[i] # o[j]}

\* sorted(S)
sorted(S) ==
    CHOOSE o \in Orders(S) : \A i, j \in DOMAIN o : i < j => StrLess(o[i], o[j])

\* ReadonlySysFsAttrDict.items, consumed to its end; order is the order in
\* which the set self.keys() is iterated, sorted(self.keys()) with sort_keys
items(d, fc, f, sort_keys, order, nofail) ==
    _iget_attributes_v(d, f,
                       IF sort_keys THEN sorted(keys(d, fc)) ELSE order,
                       nofail)

\* for _, attr_value in ...: yield attr_value
second(r) == [r EXCEPT !.items = [i \in DOMAIN r.items |-> r.items[i][2]]]

\* ReadonlySysFsAttrDict.values, consumed to its end
values(d, fc, f, order, nofail) == second(items(d, fc, f, FALSE, order, nofail))

-----------------------------------------------------------------------------
(* State *)

\* The record kept of a call: the operation, its normalized key and options,
\* the outcome (kind: "value", "KeyError", "IOError", "bool" or "none"), the
\* value returned, the filesystem accesses made, the errno of a failed read,
\* and the entry self.data held for the key before the call.  For a call
\* without a single key and value, keys, items and vals hold the keys passed
\* or visited, the pairs returned and the values returned.
Call(op, key, bypass, refresh, nofail, kind, val, reads, err, old) ==
    [op |-> op, key |-> key, bypass |-> bypass, refresh |-> refresh,
     nofail |-> nofail, kind |-> kind, val |-> val, reads |-> reads,
     err |-> err, old |-> old, keys |-> <<>>, items |-> <<>>, vals |-> <<>>]

\* the record of a bulk retrieval
BulkCall(op, attr_keys, nofail, r, pairs, values_only) ==
    [Call(op, <<>>, FALSE, FALSE, nofail, r.kind, NoValue, r.reads, r.err,
          NotCached)
        EXCEPT !.keys = attr_keys, !.items = pairs, !.vals = values_only]

NoCall ==
    Call("init", <<>>, FALSE, FALSE, FALSE, "none", NoValue, 0, "", NotCached)

True == <<"True">>
False == <<"False">>

\* The frame of a _getitem call: where it stands (pc: "idle" when no call is
\* running, else the statement of _read_attr that comes next), its arguments,
\* the text of the file its handle is open on, the errno of the exception that
\* is propagating (err), and the entry self.data held before the call.
Frame(pc, key, bypass, refresh, nofail, text, err, old) ==
    [pc |-> pc, key |-> key, bypass |-> bypass, refresh |-> refresh,
     nofail |-> nofail, text |-> text, err |-> err, old |-> old]

NoFrame == Frame("idle", <<>>, FALSE, FALSE, FALSE, <<>>, "", NotCached)

\* the directory the mapping is constructed over: a and d/a exist, b does not
InitFs == [n \in {ka, kb, kda} |->
              IF n \in {ka, kda} THEN <<"v", "\n">> ELSE Absent]

\* the constructor of class, a subclass of ReadonlySysFsAttrDict that keeps
\* its __init__, over the directory f
ConstructAs(class, f) ==
    /\ frame = NoFrame
    /\ handles = 0
    /\ fs = f
    /\ data = << >>
    /\ fname_cache = _get_filename_cache(f)
    /\ last = NoCall
    /\ got = << >>
    /\ notfound = {}
    /\ nchanges = 0
    /\ cls = class

\* ReadonlySysFsAttrDict.__init__ over the directory f
Construct(f) == ConstructAs("ReadonlySysFsAttrDict", f)

Init == Construct(InitFs) /\ nin = <<>> /\ nout = <<>>

study == <<nin, nout, cls, frame, handles>>
history == <<got, notfound>>

-----------------------------------------------------------------------------
(* Operations *)

\* a bug: a name read successfully is added to the file name snapshot
GetItem_snapshots(attr_key) ==
    LET k == Normalize(attr_key)
        r == _getitem(data, fs, k, FALSE, FALSE, FALSE, None)
    IN  /\ data' = r.data
        /\ fname_cache' = IF r.kind = "value" THEN fname_cache \cup {k}
                          ELSE fname_cache
        /\ last' = Call("getitem", k, FALSE, FALSE, FALSE,
                        r.kind, r.val, r.reads, r.err, Cached(data, k))
        /\ UNCHANGED <<fs, nchanges, study>>

\* ReadonlySysFsAttrDict.__getitem__
GetItem(attr_key) ==
    LET k == Normalize(attr_key)
        r == _getitem(data, fs, k, FALSE, FALSE, FALSE, None)
    IN  /\ data' = r.data
        /\ last' = Call("getitem", k, FALSE, FALSE, FALSE,
                        r.kind, r.val, r.reads, r.err, Cached(data, k))
        /\ UNCHANGED <<fs, fname_cache, nchanges, study>>

\* ReadonlySysFsAttrDict.get, called as get(attr_key, Fallback, nofail=nofail)
Get(attr_key, nofail) ==
    LET k == Normalize(attr_key)
        r == _get(data, fs, k, Fallback, nofail)
    IN  /\ data' = r.data
        /\ last' = Call("get", k, FALSE, FALSE, nofail,
                        r.kind, r.val, r.reads, r.err, Cached(data, k))
        /\ UNCHANGED <<fs, fname_cache, nchanges, study>>

\* ReadonlySysFsAttrDict._getitem, called with a normalized key and
\* nofail_fallback=Fallback
Fetch(attr_normkey, bypass, refresh, nofail) ==
    LET r == _getitem(data, fs, attr_normkey, bypass, refresh, nofail, Fallback)
    IN  /\ data' = r.data
        /\ last' = Call("fetch", attr_normkey, bypass, refresh, nofail,
                        r.kind, r.val, r.reads, r.err, Cached(data, attr_normkey))
        /\ UNCHANGED <<fs, fname_cache, nchanges, study>>

\* ReadonlySysFsAttrDict.__contains__
Contains(attr_key) ==
    LET k == Normalize(attr_key)
        r == __contains__(data, fname_cache, fs, attr_key)
    IN  /\ last' = Call("contains", k, FALSE, FALSE, FALSE, "bool",
                        IF r.val THEN True ELSE False,
                        r.reads, "", Cached(data, k))
        /\ UNCHANGED <<fs, data, fname_cache, nchanges, study>>

\* ReadonlySysFsAttrDict.drop
Drop(attr_key) ==
    LET k == Normalize(attr_key)
    IN  /\ data' = _drop(data, k)
        /\ last' = Call("drop", k, FALSE, FALSE, FALSE, "none", NoValue, 0, "",
                        Cached(data, k))
        /\ UNCHANGED <<fs, fname_cache, nchanges, study>>

\* ReadonlySysFsAttrDict.get_attributes(*attr_keys, nofail=nofail); the call
\* record holds the raw keys and the list returned
GetAttributes(attr_keys, nofail) ==
    LET r == get_attributes(data, fs, attr_keys, nofail)
    IN  /\ data' = r.data
        /\ last' = BulkCall("get_attributes", attr_keys, nofail, r, r.items, <<>>)
        /\ UNCHANGED <<fs, fname_cache, nchanges, study>>

\* list(ReadonlySysFsAttrDict.items(sort_keys, nofail=nofail)); the call
\* record holds the keys in the order they were visited
Items(sort_keys, order, nofail) ==
    LET r == items(data, fname_cache, fs, sort_keys, order, nofail)
    IN  /\ order \in Orders(keys(data, fname_cache))
        /\ sort_keys => order = sorted(keys(data, fname_cache))
        /\ data' = r.data
        /\ last' = BulkCall("items", order, nofail, r, r.items, <<>>)
        /\ UNCHANGED <<fs, fname_cache, nchanges, study>>

\* list(ReadonlySysFsAttrDict.values(nofail=nofail))
Values(order, nofail) ==
    LET r == values(data, fname_cache, fs, order, nofail)
    IN  /\ order \in Orders(keys(data, fname_cache))
        /\ data' = r.data
        /\ last' = BulkCall("values", order, nofail, r, <<>>, r.items)
        /\ UNCHANGED <<fs, fname_cache, nchanges, study>>

\* ReadonlySysFsAttrDict.clear
Clear ==
    /\ data' = << >>
    /\ fname_cache' = _get_filename_cache(fs)
    /\ last' = Call("clear", <<>>, FALSE, FALSE, FALSE, "none", NoValue, 0, "",
                    NotCached)
    /\ UNCHANGED <<fs, nchanges, study>>

\* The environment creates, deletes, rewrites or protects a file below root,
\* or removes root, puts a regular file in its place or brings it back.
FsChange(n, st) ==
    /\ nchanges < MaxFsChanges
    /\ st \in StatesOf(n)
    /\ fs[n] # st
    /\ fs' = [fs EXCEPT ![n] = st]
    /\ nchanges' = nchanges + 1
    /\ last' = Call("fschange", n, FALSE, FALSE, FALSE, "none", NoValue, 0, "",
                    Cached(data, n))
    /\ UNCHANGED <<data, fname_cache, study>>

\* the history variables are not kept
Frozen == UNCHANGED history

\* the calls on the mapping and the changes of the environment
Next ==
    \/ \E r \in RawKeys(fs) : GetItem(r) /\ Frozen
    \/ \E r \in RawKeys(fs), nofail \in BOOLEAN : Get(r, nofail) /\ Frozen
    \/ \E k \in DOMAIN fs, bypass \in BOOLEAN, refresh \in BOOLEAN,
          nofail \in BOOLEAN : Fetch(k, bypass, refresh, nofail) /\ Frozen
    \/ \E r \in RawKeys(fs) : Contains(r) /\ Frozen
    \/ \E r \in RawKeys(fs) : Drop(r) /\ Frozen
    \/ Clear /\ Frozen
    \/ \E n \in DOMAIN fs, st \in FileStates \cup RootStates :
          FsChange(n, st) /\ Frozen

Spec == Init /\ [][Next]_vars

-----------------------------------------------------------------------------
(* The same machine with its call history recorded *)

IsRead(c) == c.op \in {"getitem", "get", "fetch"}

\* got after the call c: a successful __getitem__ records the value returned;
\* drop, clear and a refresh read forget
GotAfter(g, c) ==
    IF c.op = "getitem" /\ c.kind = "value" THEN setitem(g, c.key, c.val)
    ELSE IF c.op = "drop" \/ (IsRead(c) /\ c.refresh) THEN _drop(g, c.key)
    ELSE IF c.op = "clear" THEN << >>
    ELSE g

\* notfound after the call c: a read that went to the filesystem without
\* bypass records whether the file was found
NotFoundAfter(nf, c) ==
    IF IsRead(c) /\ ~c.bypass /\ c.reads = 1
    THEN IF c.err = "ENOENT" THEN nf \cup {c.key} ELSE nf \ {c.key}
    ELSE nf

\* the history variables follow the call just made
Recorded ==
    /\ got' = GotAfter(got, last')
    /\ notfound' = NotFoundAfter(notfound, last')

NextHist ==
    \/ \E r \in RawKeys(fs) : GetItem(r) /\ Recorded
    \/ \E r \in RawKeys(fs), nofail \in BOOLEAN : Get(r, nofail) /\ Recorded
    \/ \E k \in DOMAIN fs, bypass \in BOOLEAN, refresh \in BOOLEAN,
          nofail \in BOOLEAN : Fetch(k, bypass, refresh, nofail) /\ Recorded
    \/ \E r \in RawKeys(fs) : Contains(r) /\ Recorded
    \/ \E r \in RawKeys(fs) : Drop(r) /\ Recorded
    \/ Clear /\ Recorded
    \/ \E n \in DOMAIN fs, st \in FileStates \cup RootStates :
          FsChange(n, st) /\ Recorded

\* the directory of the recorded runs: a exists, d/a does not
InitHistFs == [n \in {ka, kda} |-> IF n = ka THEN <<"v", "\n">> ELSE Absent]

InitHist == Construct(InitHistFs) /\ nin = <<>> /\ nout = <<>>

SpecHist == InitHist /\ [][NextHist]_vars

-----------------------------------------------------------------------------
(* The machine over a root that comes and goes: the mapping is constructed *)
(* over a directory, over a missing path or over a regular file            *)

InitRootFs(rs) ==
    [n \in {kroot, ka, kda} |-> IF n = kroot THEN rs ELSE <<"v", "\n">>]

InitRoot ==
    /\ \E rs \in RootStates : Construct(InitRootFs(rs))
    /\ nin = <<>>
    /\ nout = <<>>

SpecRoot == InitRoot /\ [][Next]_vars

-----------------------------------------------------------------------------
(* Every operation of the mapping, bulk retrieval included, over a root    *)
(* where a exists and b does not                                           *)

InitAllFs == [n \in {ka, kb} |-> IF n = ka THEN <<"v", "\n">> ELSE Absent]

InitAll == Construct(InitAllFs) /\ nin = <<>> /\ nout = <<>>

NextAll ==
    \/ \E r \in RawKeys(fs) : GetItem(r) /\ Frozen
    \/ \E r \in RawKeys(fs), nofail \in BOOLEAN : Get(r, nofail) /\ Frozen
    \/ \E k \in DOMAIN fs, bypass \in BOOLEAN, refresh \in BOOLEAN,
          nofail \in BOOLEAN : Fetch(k, bypass, refresh, nofail) /\ Frozen
    \/ \E r \in RawKeys(fs) : Contains(r) /\ Frozen
    \/ \E r \in RawKeys(fs) : Drop(r) /\ Frozen
    \/ Clear /\ Frozen
    \/ \E n \in DOMAIN fs, st \in FileStates : FsChange(n, st) /\ Frozen
    \/ \E attr_keys \in KeyLists(DOMAIN fs), nofail \in BOOLEAN :
          GetAttributes(attr_keys, nofail) /\ Frozen
    \/ \E sort_keys \in BOOLEAN, order \in Orders(keys(data, fname_cache)),
          nofail \in BOOLEAN : Items(sort_keys, order, nofail) /\ Frozen
    \/ \E order \in Orders(keys(data, fname_cache)), nofail \in BOOLEAN :
          Values(order, nofail) /\ Frozen

SpecAll == InitAll /\ [][NextAll]_vars

-----------------------------------------------------------------------------
(* The public operations called with raw keys of every spelling, over a    *)
(* root that holds the file b and the directory a with the file a/b        *)

InitPublicFs == [n \in {kb, kab} |-> <<"v", "\n">>]

InitPublic == Construct(InitPublicFs) /\ nin = <<>> /\ nout = <<>>

\* the keys passed to get_attributes: two spellings of files and a key of
\* separators only
PublicBulkKeys == {<<curdir, sep, "b">>, kab, <<sep>>}

NextPublic ==
    \/ \E r \in PublicRawKeys : GetItem(r) /\ Frozen
    \/ \E r \in PublicRawKeys, nofail \in BOOLEAN : Get(r, nofail) /\ Frozen
    \/ \E r \in PublicRawKeys : Drop(r) /\ Frozen
    \/ Clear /\ Frozen
    \/ \E attr_keys \in KeyLists(PublicBulkKeys), nofail \in BOOLEAN :
          GetAttributes(attr_keys, nofail) /\ Frozen
    \/ \E sort_keys \in BOOLEAN, order \in Orders(keys(data, fname_cache)),
          nofail \in BOOLEAN : Items(sort_keys, order, nofail) /\ Frozen
    \/ \E order \in Orders(keys(data, fname_cache)), nofail \in BOOLEAN :
          Values(order, nofail) /\ Frozen

SpecPublic == InitPublic /\ [][NextPublic]_vars

-----------------------------------------------------------------------------
(* Bulk retrieval from a DMI id directory with the files vendor and serial, *)
(* through a ReadonlySysFsAttrDict and through a DMIIDInfo                  *)

AcmeCorp == <<"A", "c", "m", "e", " ", "C", "o", "r", "p", "\n">>
NotAvailable == <<"N", "o", "t", " ", "A", "v", "a", "i", "l", "a", "b", "l", "e", "\n">>
DmiStates == {Absent, Unreadable, AcmeCorp, NotAvailable}
Classes == {"ReadonlySysFsAttrDict", "DMIIDInfo"}

InitBulk ==
    /\ \E class \in Classes, f \in [{kvendor, kserial} -> DmiStates] :
          ConstructAs(class, f)
    /\ nin = <<>>
    /\ nout = <<>>

\* the keys passed to get_attributes: the file names and a redundant spelling
BulkKeys(f) == (DOMAIN f) \cup {<<sep>> \o kvendor}

NextBulk ==
    \/ \E attr_keys \in KeyLists(BulkKeys(fs)), nofail \in BOOLEAN :
          GetAttributes(attr_keys, nofail) /\ Frozen
    \/ \E sort_keys \in BOOLEAN, order \in Orders(keys(data, fname_cache)),
          nofail \in BOOLEAN : Items(sort_keys, order, nofail) /\ Frozen
    \/ \E order \in Orders(keys(data, fname_cache)), nofail \in BOOLEAN :
          Values(order, nofail) /\ Frozen
    \/ \E r \in BulkKeys(fs) : Drop(r) /\ Frozen

SpecBulk == InitBulk /\ [][NextBulk]_vars

-----------------------------------------------------------------------------
(* A mapping over a root that holds exactly the files a, b and c, on which *)
(* only __getitem__ is called                                              *)

InitEnum ==
    /\ \E f \in [{ka, kb, kc} -> Texts] : Construct(f)
    /\ nin = <<>>
    /\ nout = <<>>

NextEnum == \E r \in RawKeys(fs) : GetItem(r) /\ Frozen

SpecEnum == InitEnum /\ [][NextEnum]_vars

-----------------------------------------------------------------------------
(* normalize_key applied to a raw key, and again to its result *)

InitNorm ==
    /\ Construct(InitFs)
    /\ nin \in AllRawKeys
    /\ nout = <<>>

NormalizeStep ==
    /\ Len(nout) < 2
    /\ nout' = Append(nout, normalize_key(IF nout = <<>> THEN nin
                                          ELSE nout[Len(nout)]))
    /\ UNCHANGED <<fs, data, fname_cache, last, got, notfound, nchanges, nin,
                   cls, frame, handles>>

NextNorm == NormalizeStep

SpecNorm == InitNorm /\ [][NextNorm]_vars

-----------------------------------------------------------------------------
(* _getitem statement by statement: the file handle of _read_attr *)

\* errors fh.read() can end with on a file that was opened
ReadErrors == {"EIO"}

\* a bug: the handle is closed after a successful read only (open, read and
\* close in a row, without the with statement)
__exit___on_success(n, err) == IF err = "" THEN n - 1 ELSE n

\* _read_attr, leaving the with block: the handle is closed, whether fh.read()
\* returned or raised err
__exit__(n, err) == n - 1

\* _getitem returns, or the exception it raises leaves it
Leave(kind, val, reads, err) ==
    /\ last' = Call("fetch", frame.key, frame.bypass, frame.refresh,
                    frame.nofail, kind, val, reads, err, frame.old)
    /\ frame' = NoFrame

\* _getitem, "except ( IOError, OSError ) as err" for the errno err
Except(err) ==
    Leave(_getitem_error(err, frame.nofail, Fallback).kind,
          _getitem_error(err, frame.nofail, Fallback).val, 1, err)

\* _getitem up to "try read from fs", for the lookup c
EnterFrom(c, attr_normkey, bypass, refresh, nofail) ==
    /\ data' = c.data
    /\ IF c.hit
       THEN /\ last' = Call("fetch", attr_normkey, bypass, refresh, nofail,
                            "value", c.data[attr_normkey], 0, "",
                            Cached(data, attr_normkey))
            /\ frame' = NoFrame
       ELSE /\ frame' = Frame("open", attr_normkey, bypass, refresh, nofail,
                              <<>>, "", Cached(data, attr_normkey))
            /\ UNCHANGED last

\* a call of _getitem starts: "drop or return cached?"
Enter(attr_normkey, bypass, refresh, nofail) ==
    /\ frame.pc = "idle"
    /\ EnterFrom(_getitem_lookup(data, attr_normkey, bypass, refresh),
                 attr_normkey, bypass, refresh, nofail)
    /\ UNCHANGED <<fs, fname_cache, nchanges, handles, nin, nout, cls>>

\* _open_attr_text_file on the file in state st: io.open raises and leaves no
\* handle, or returns one.  The handle keeps the file it was opened on, whatever
\* becomes of the path before the read.
OpenOf(st) ==
    IF _read_attr_of(frame.key, st).err # ""
    THEN /\ Except(_read_attr_of(frame.key, st).err)
         /\ UNCHANGED handles
    ELSE /\ frame' = [frame EXCEPT !.pc = "read", !.text = st]
         /\ handles' = handles + 1
         /\ UNCHANGED last

\* _read_attr, "with self._open_attr_text_file ( attr_normkey, 'rt' ) as fh"
Open ==
    /\ frame.pc = "open"
    /\ OpenOf(Lookup(fs, frame.key))
    /\ UNCHANGED <<fs, data, fname_cache, nchanges, nin, nout, cls>>

\* _read_attr, "text = fh.read()": the text is read, or the read raises err
Read(err) ==
    /\ frame.pc = "read"
    /\ frame' = [frame EXCEPT !.pc = "exit", !.err = err]
    /\ UNCHANGED <<fs, data, fname_cache, last, nchanges, handles, nin, nout,
                   cls>>

\* _read_attr, the end of the with block: fh.__exit__ closes the handle, then
\* the exception of the read goes on to _getitem or the text is deserialized
Exit ==
    /\ frame.pc = "exit"
    /\ handles' = __exit__(handles, frame.err)
    /\ IF frame.err # "" THEN Except(frame.err)
       ELSE /\ frame' = [frame EXCEPT !.pc = "deserialize"]
            /\ UNCHANGED last
    /\ UNCHANGED <<fs, data, fname_cache, nchanges, nin, nout, cls>>

\* _read_attr, "return self.deserialize_value ( attr_normkey, text )", and the
\* rest of _getitem: store unless bypass, return the value
Deserialize ==
    /\ frame.pc = "deserialize"
    /\ data' = _getitem_store(data, frame.key,
                              self_deserialize_value(frame.key, frame.text),
                              frame.bypass)
    /\ Leave("value", self_deserialize_value(frame.key, frame.text), 1, "")
    /\ UNCHANGED <<fs, fname_cache, nchanges, handles, nin, nout, cls>>

NextSteps ==
    \/ \E k \in DOMAIN fs, bypass \in BOOLEAN, refresh \in BOOLEAN,
          nofail \in BOOLEAN : Enter(k, bypass, refresh, nofail) /\ Frozen
    \/ Open /\ Frozen
    \/ \E err \in ReadErrors \cup {""} : Read(err) /\ Frozen
    \/ Exit /\ Frozen
    \/ Deserialize /\ Frozen
    \/ \E n \in DOMAIN fs, st \in FileStates \cup RootStates :
          FsChange(n, st) /\ Frozen

SpecSteps == InitRoot /\ [][NextSteps]_vars

-----------------------------------------------------------------------------
(* DMIInfo.normalize_key *)

\* DMIInfo.DMIDECODE_HANDLE_MAP
DMIDECODE_HANDLE_MAP ==
    (0 :> <<"B", "I", "O", "S">>)
    @@ (1 :> <<"S", "Y", "S", "T", "E", "M">>)
    @@ (2 :> <<"B", "O", "A", "R", "D">>)
    @@ (3 :> <<"C", "H", "A", "S", "S", "I", "S">>)

\* DMIInfo.ATTR_KEY_ALIAS_MAP
ATTR_KEY_ALIAS_MAP ==
    (<<"B", "I", "O", "S">> :> (
            (<<"V", "e", "n", "d", "o", "r">>
                :> <<"b", "i", "o", "s", "_", "v", "e", "n", "d", "o", "r">>)
            @@ (<<"V", "e", "r", "s", "i", "o", "n">>
                :> <<"b", "i", "o", "s", "_", "v", "e", "r", "s", "i", "o", "n">>)
            @@ (<<"R", "e", "l", "e", "a", "s", "e", " ", "D", "a", "t", "e">>
                :> <<"b", "i", "o", "s", "_", "d", "a", "t", "e">>)))
    @@ (<<"S", "Y", "S", "T", "E", "M">> :> (
            (<<"M", "a", "n", "u", "f", "a", "c", "t", "u", "r", "e", "r">>
                :> <<"s", "y", "s", "_", "v", "e", "n", "d", "o", "r">>)
            @@ (<<"P", "r", "o", "d", "u", "c", "t", " ", "N", "a", "m", "e">>
                :> <<"p", "r", "o", "d", "u", "c", "t", "_", "n", "a", "m", "e">>)
            @@ (<<"V", "e", "r", "s", "i", "o", "n">>
                :> <<"p", "r", "o", "d", "u", "c", "t", "_", "v", "e", "r", "s", "i", "o", "n">>)
            @@ (<<"S", "e", "r", "i", "a", "l", " ", "N", "u", "m", "b", "e", "r">>
                :> <<"p", "r", "o", "d", "u", "c", "t", "_", "s", "e", "r", "i", "a", "l">>)
            @@ (<<"U", "U", "I", "D">>
                :> <<"p", "r", "o", "d", "u", "c", "t", "_", "u", "u", "i", "d">>)))
    @@ (<<"B", "O", "A", "R", "D">> :> (
            (<<"M", "a", "n", "u", "f", "a", "c", "t", "u", "r", "e", "r">>
                :> <<"b", "o", "a", "r", "d", "_", "v", "e", "n", "d", "o", "r">>)
            @@ (<<"P", "r", "o", "d", "u", "c", "t", " ", "N", "a", "m", "e">>
                :> <<"b", "o", "a", "r", "d", "_", "n", "a", "m", "e">>)
            @@ (<<"V", "e", "r", "s", "i", "o", "n">>
                :> <<"b", "o", "a", "r", "d", "_", "v", "e", "r", "s", "i", "o", "n">>)
            @@ (<<"S", "e", "r", "i", "a", "l", " ", "N", "u", "m", "b", "e", "r">>
                :> <<"b", "o", "a", "r", "d", "_", "s", "e", "r", "i", "a", "l">>)
            @@ (<<"A", "s", "s", "e", "t", " ", "T", "a", "g">>
                :> <<"b", "o", "a", "r", "d", "_", "a", "s", "s", "e", "t", "_", "t", "a", "g">>)))
    @@ (<<"C", "H", "A", "S", "S", "I", "S">> :> (
            (<<"M", "a", "n", "u", "f", "a", "c", "t", "u", "r", "e", "r">>
                :> <<"c", "h", "a", "s", "s", "i", "s", "_", "v", "e", "n", "d", "o", "r">>)
            @@ (<<"T", "y", "p", "e">>
                :> <<"c", "h", "a", "s", "s", "i", "s", "_", "t", "y", "p", "e">>)
            @@ (<<"V", "e", "r", "s", "i", "o", "n">>
                :> <<"c", "h", "a", "s", "s", "i", "s", "_", "v", "e", "r", "s", "i", "o", "n">>)
            @@ (<<"S", "e", "r", "i", "a", "l", " ", "N", "u", "m", "b", "e", "r">>
                :> <<"c", "h", "a", "s", "s", "i", "s", "_", "s", "e", "r", "i", "a", "l">>)
            @@ (<<"A", "s", "s", "e", "t", " ", "T", "a", "g">>
                :> <<"c", "h", "a", "s", "s", "i", "s", "_", "a", "s", "s", "e", "t", "_", "t", "a", "g">>)))

\* str.upper()
upper(s) ==
    [i \in DOMAIN s |->
        IF \E j \in 1..26 : LowerCase[j] = s[i]
        THEN UpperCase[CHOOSE j \in 1..26 : LowerCase[j] = s[i]]
        ELSE s[i]]

\* the digits int(s, 16) accepts, in the order of their values
HexDigits == <<"0", "1", "2", "3", "4", "5", "6", "7", "8", "9",
               "a", "b", "c", "d", "e", "f">>

IsHexDigit(c) == \E j \in 1..16 : HexDigits[j] = c

\* int(s, 16), the digits: underscores stand between two digits only
WellGrouped(digits) ==
    /\ digits # <<>>
    /\ IsHexDigit(digits[1])
    /\ IsHexDigit(digits[Len(digits)])
    /\ \A i \in DOMAIN digits :
          \/ IsHexDigit(digits[i])
          \/ /\ digits[i] = "_"
             /\ i > 1 /\ IsHexDigit(digits[i - 1])

\* int(s, 16), the value of well-grouped digits
RECURSIVE hexvalue(_, _)
hexvalue(digits, acc) ==
    IF digits = <<>> THEN acc
    ELSE IF Head(digits) = "_" THEN hexvalue(Tail(digits), acc)
    ELSE hexvalue(Tail(digits),
                  16 * acc + (CHOOSE j \in 1..16 : HexDigits[j] = Head(digits)) - 1)

\* int(s, 16) after the sign: an optional prefix 0x, which an underscore may
\* follow, then the digits
unprefixed(s) ==
    IF startswith(s, <<"0", "x", "_">>) THEN SubSeq(s, 4, Len(s))
    ELSE IF startswith(s, <<"0", "x">>) THEN SubSeq(s, 3, Len(s))
    ELSE s

\* int(s, 16) after the whitespace around it is removed: sign, then the rest
unsigned(s) ==
    IF s # <<>> /\ Head(s) \in {"+", "-"} THEN Tail(s) ELSE s

\* int(s, 16) for a str s: ok tells whether s is a number (else ValueError is
\* raised), val its value
int16(s) ==
    [ok |-> WellGrouped(unprefixed(unsigned(lower(strip(s))))),
     val |-> IF WellGrouped(unprefixed(unsigned(lower(strip(s)))))
             THEN (IF startswith(strip(s), <<"-">>) THEN -1 ELSE 1)
                  * hexvalue(unprefixed(unsigned(lower(strip(s)))), 0)
             ELSE 0]

\* the handle of a pair key: an int, a str, or a value that is neither (None)
IntHandle(n) == [type |-> "int", int |-> n, str |-> <<>>]
StrHandle(s) == [type |-> "str", int |-> 0, str |-> s]
NoneHandle == [type |-> "NoneType", int |-> 0, str |-> <<>>]

\* What a call of the classmethods below ends with: kind is "value" or the
\* exception raised, val the value returned.
Returns(val) == [kind |-> "value", val |-> val]
Raises(exception) == [kind |-> exception, val |-> NoValue]

\* DMIDECODE_HANDLE_MAP.get ( handle_int )
handle_map_get(handle_int) ==
    IF handle_int \in DOMAIN DMIDECODE_HANDLE_MAP
    THEN Returns(DMIDECODE_HANDLE_MAP[handle_int]) ELSE Returns(None)

\* DMIInfo._get_handle_key.  int ( handle, 16 ) raises TypeError for a handle
\* that is no str, ValueError for a str that is no number.
_get_handle_key(handle) ==
    IF handle.type = "int" THEN handle_map_get(handle.int)
    ELSE IF handle.type # "str" THEN Raises("TypeError")
    ELSE IF int16(handle.str).ok THEN handle_map_get(int16(handle.str).val)
    ELSE Returns(upper(handle.str))

\* _deref_dmidecode_attr for the outcome handle_key of _get_handle_key
deref_handle_key(handle_key, attr_name) ==
    IF handle_key.kind # "value" THEN handle_key
    ELSE IF handle_key.val \in {None, <<>>} THEN Raises("KeyError")
    ELSE IF handle_key.val \notin DOMAIN ATTR_KEY_ALIAS_MAP
         THEN Raises("KeyError")
    ELSE IF attr_name \notin DOMAIN ATTR_KEY_ALIAS_MAP[handle_key.val]
         THEN Raises("KeyError")
    ELSE Returns(ATTR_KEY_ALIAS_MAP[handle_key.val][attr_name])

\* DMIInfo._deref_dmidecode_attr
_deref_dmidecode_attr(handle, attr_name) ==
    deref_handle_key(_get_handle_key(handle), attr_name)

\* _normalize_attr_key_tuple, "except KeyError: raise ValueError ( attr_key )"
except_KeyError(r) == IF r.kind = "KeyError" THEN Raises("ValueError") ELSE r

\* DMIInfo._normalize_attr_key_tuple for the pair (handle, attr_name)
_normalize_attr_key_tuple(handle, attr_name) ==
    except_KeyError(_deref_dmidecode_attr(handle, attr_name))

\* str.rfind(sep) + 1
RECURSIVE rfind1(_, _)
rfind1(p, i) ==
    IF i = 0 THEN 0 ELSE IF p[i] = sep THEN i ELSE rfind1(p, i - 1)

\* str.rstrip(sep)
RECURSIVE rstrip_sep(_)
rstrip_sep(s) ==
    IF s # <<>> /\ s[Len(s)] = sep THEN rstrip_sep(SubSeq(s, 1, Len(s) - 1))
    ELSE s

\* posixpath.split for the index i of the last separator
split_at(p, i) ==
    [head |-> IF rstrip_sep(SubSeq(p, 1, i)) = <<>> THEN SubSeq(p, 1, i)
              ELSE rstrip_sep(SubSeq(p, 1, i)),
     tail |-> SubSeq(p, i + 1, Len(p))]

\* os.path.split (posix): always a pair (head, tail)
os_path_split(p) == split_at(p, rfind1(p, Len(p)))

\* The keys normalize_key is called with: a str, or a pair (handle, name).
StrKey(s) == [pair |-> FALSE, str |-> s, handle |-> NoneHandle, name |-> <<>>]
PairKey(handle, attr_name) ==
    [pair |-> TRUE, str |-> <<>>, handle |-> handle, name |-> attr_name]

\* DMIInfo.normalize_key, "assert attr_normkey; return attr_normkey"
asserted(attr_normkey) ==
    IF attr_normkey = <<>> THEN Raises("AssertionError")
    ELSE Returns(attr_normkey)

\* DMIInfo.normalize_key, the str branch from os.path.split on: k is the
\* outcome of _normalize_attr_key_tuple ( parts )
aliased(attr_normkey, k) ==
    IF k.kind = "ValueError" THEN asserted(attr_normkey)
    ELSE IF k.kind = "value" THEN asserted(k.val)
    ELSE k

\* DMIInfo.normalize_key, the str branch for the parts of the normalized key
normalize_parts(attr_normkey, parts) ==
    aliased(attr_normkey,
            _normalize_attr_key_tuple(StrHandle(parts.head), parts.tail))

\* DMIInfo.normalize_key
DMIInfo_normalize_key(attr_key) ==
    IF attr_key.pair
    THEN _normalize_attr_key_tuple(attr_key.handle, attr_key.name)
    ELSE normalize_parts(normalize_key(attr_key.str),
                         os_path_split(normalize_key(attr_key.str)))

\* spellings of the handle of a key: section names, numbers, and neither
SectionSpellings ==
    {<<"B", "I", "O", "S">>, <<"b", "i", "o", "s">>, <<"B", "i", "o", "s">>,
     <<"S", "Y", "S", "T", "E", "M">>, <<"b", "o", "a", "r", "d">>,
     <<"C", "H", "A", "S", "S", "I", "S">>, <<"0">>, <<"0", "x", "0">>,
     <<"1">>, <<"3">>, <<"4">>, <<"x">>, <<" ", "2">>}

\* the names of a key: every field of ATTR_KEY_ALIAS_MAP, and two that are none
FieldNames ==
    UNION {DOMAIN ATTR_KEY_ALIAS_MAP[s] : s \in DOMAIN ATTR_KEY_ALIAS_MAP}
    \cup {<<"v", "e", "n", "d", "o", "r">>, <<"x">>}

\* str keys that spell the handle s and the name f as a path, with and without
\* segments before, between and after them
Spelled(s, f) ==
    {s \o <<sep>> \o f,
     <<sep>> \o s \o <<sep>> \o f,
     s \o <<sep, sep>> \o f,
     s \o <<sep, curdir, sep>> \o f,
     s \o <<sep, "x", sep, curdir, curdir, sep>> \o f,
     s \o <<sep>> \o f \o <<sep>>,
     <<"a", sep>> \o s \o <<sep>> \o f,
     s \o <<sep>> \o f \o <<sep, "x">>,
     s,
     f}

\* the keys DMIInfo.normalize_key is studied on: the spelled str keys and
\* those that name root, and the pairs of a handle (an int, a str, None) and
\* a name
AliasKeys ==
    {StrKey(s) : s \in UNION {Spelled(h, f) : h \in SectionSpellings,
                                              f \in FieldNames}
                       \cup {<<sep>>, <<>>, <<curdir>>}}
    \cup {PairKey(IntHandle(n), f) : n \in -1..4, f \in FieldNames}
    \cup {PairKey(StrHandle(h), f) : h \in SectionSpellings \cup {<<>>},
                                     f \in FieldNames}
    \cup {PairKey(NoneHandle, f) : f \in FieldNames}

\* a DMIInfo mapping and a key for its normalize_key
InitAlias ==
    /\ ConstructAs("DMIInfo", InitFs)
    /\ nin \in AliasKeys
    /\ nout = <<>>

\* DMIInfo.normalize_key applied to the key: nout holds how the call ended
NormalizeAliasStep ==
    /\ nout = <<>>
    /\ nout' = <<DMIInfo_normalize_key(nin)>>
    /\ UNCHANGED <<fs, data, fname_cache, last, got, notfound, nchanges, nin,
                   cls, frame, handles>>

SpecAlias == InitAlias /\ [][NormalizeAliasStep]_vars

-----------------------------------------------------------------------------
(* Properties *)

\* what the file of the last call's key deserializes to, when it is readable
FileValue == deserialize_value(last.key, Lookup(fs, last.key))
FileReadable == Lookup(fs, last.key) \in Texts
ContainsLastKey == __contains__(data, fname_cache, fs, last.key)

\* C1 (under SpecHist): once __getitem__(k) has returned a value, a later
\* _getitem(k) with bypass and refresh off returns that same value and reads
\* nothing from the filesystem, whatever became of the file, as long as no
\* drop(k), clear() or refresh read of k came in between.
CachedFetch ==
    /\ last.op = "fetch" /\ ~last.bypass /\ ~last.refresh
    /\ last.key \in DOMAIN got
C1_ReadThroughCaches ==
    CachedFetch =>
        /\ last.kind = "value"
        /\ last.val = got[last.key]
        /\ last.reads = 0
C1_Witness ==
    /\ CachedFetch
    /\ last.val = got[last.key]
    /\ last.reads = 0
    /\ (~FileReadable \/ FileValue # last.val)

\* C2: when k is cached with V1 and the file now deserializes to another value
\* V2, _getitem(k, refresh=True) returns V2, and unless bypass is set
\* self.data holds V2 for k afterwards.
RefreshOfStale ==
    /\ last.op = "fetch" /\ last.refresh
    /\ last.old # NotCached
    /\ FileReadable /\ FileValue # last.old
C2_RefreshForcesReread ==
    RefreshOfStale =>
        /\ last.kind = "value"
        /\ last.val = FileValue
        /\ last.reads = 1
        /\ (~last.bypass => Cached(data, last.key) = FileValue)
C2_Witness ==
    /\ RefreshOfStale /\ ~last.bypass
    /\ last.val = FileValue
    /\ Cached(data, last.key) = FileValue

\* a bypass read of a key that was not cached, which succeeded
BypassRead ==
    /\ last.op = "fetch" /\ last.bypass
    /\ last.old = NotCached
    /\ last.reads = 1 /\ last.err = "" /\ last.kind = "value"

\* C3 as stated: after a successful _getitem(k, bypass=True) of a key that was
\* not cached, k in mapping is false.
C3_BypassThenContainsFalse ==
    BypassRead => ~ContainsLastKey.val

\* C3 as amended: after a successful _getitem(k, bypass=True) of a key that
\* was not cached, k is still not in self.data, and k in mapping is false
\* exactly when k is a top-level name missing from the file name snapshot
\* (a name in the snapshot, or a deep key, whose file exists, gives true).
C3_BypassNeverCaches ==
    BypassRead =>
        /\ last.key \notin DOMAIN data
        /\ ContainsLastKey.val <=> (last.key \in fname_cache \/ HasSep(last.key))
C3_Witness ==
    /\ BypassRead
    /\ last.key \notin DOMAIN data
    /\ ~ContainsLastKey.val

\* C4 as stated: get(k, Fallback, nofail=True) returns Fallback when the file
\* is unreadable (EACCES) and when it is absent (ENOENT); without nofail the
\* access failure propagates and the absent file still gives Fallback.
C4_TolerantLookupFallback ==
    (last.op = "get" /\ last.reads = 1 /\ last.err \in {"ENOENT", "EACCES"}) =>
        IF last.err = "ENOENT" \/ last.nofail
        THEN last.kind = "value" /\ last.val = Fallback
        ELSE last.kind = "IOError"

\* C5 as stated (under SpecRoot): a _getitem that reaches the filesystem read
\* while the file root/k does not exist raises KeyError whatever bypass,
\* refresh, nofail and the fallback are; __getitem__ raises KeyError for a
\* file that does not exist and IOError/OSError for a file that cannot be
\* read.  (Where the file is missing from a directory, ENOENT, this holds;
\* where root is a regular file, ENOTDIR, it does not.)
MissingFileRead ==
    last.reads = 1 /\ Lookup(fs, last.key) \in {Absent, NotADirectory}
C5_NotFoundNeverSuppressed ==
    /\ (last.op = "fetch" /\ MissingFileRead) => last.kind = "KeyError"
    /\ (last.op = "getitem" /\ MissingFileRead) => last.kind = "KeyError"
    /\ (last.op = "getitem" /\ last.reads = 1
            /\ Lookup(fs, last.key) \in {Unreadable, Directory})
         => last.kind = "IOError"

\* C6 as stated: self.data holds no entry for a key whose most recent read
\* raised KeyError (here: right after that read).
C6_NoEntryAfterNotFound ==
    (IsRead(last) /\ last.err = "ENOENT") => last.key \notin DOMAIN data

\* C6 as amended (under SpecHist): self.data holds no entry for a key whose
\* most recent filesystem read made without bypass raised KeyError; a bypass
\* read that raises KeyError leaves the entry of its key as it was, unless
\* refresh dropped it.
C6_NoEntryAfterCachingNotFound ==
    /\ \A k \in notfound : k \notin DOMAIN data
    /\ (IsRead(last) /\ last.err = "ENOENT" /\ last.bypass) =>
          Cached(data, last.key) = IF last.refresh THEN NotCached ELSE last.old
C6_Witness ==
    /\ IsRead(last) /\ last.err = "ENOENT" /\ ~last.bypass
    /\ last.old # NotCached
    /\ last.key \in notfound
    /\ last.key \notin DOMAIN data

\* C7 (under SpecEnum): over a root whose files are exactly a, b and c, keys()
\* is {a, b, c} after construction and after any number of __getitem__ calls,
\* in any order, and len() is 3.
C7_EnumerationComplete ==
    /\ keys(data, fname_cache) = {ka, kb, kc}
    /\ __len__(data, fname_cache) = 3
C7_Witness ==
    /\ DOMAIN data = {ka, kb, kc}
    /\ last.op = "getitem" /\ last.reads = 0
    /\ keys(data, fname_cache) = {ka, kb, kc}

\* C8: keys() holds exactly the keys of self.data and the names of
\* _fname_cache, len() is the number of those keys, and bool() is true exactly
\* when one of the two is non-empty, that is when len() > 0.
C8_KeysIsUnion ==
    /\ \A k \in DOMAIN fs \cup DOMAIN data \cup fname_cache
              \cup keys(data, fname_cache) :
          k \in keys(data, fname_cache)
              <=> (Cached(data, k) # NotCached \/ k \in fname_cache)
    /\ __len__(data, fname_cache) = Cardinality((DOMAIN data) \cup fname_cache)
    /\ __bool__(data, fname_cache) <=> (data # << >> \/ fname_cache # {})
    /\ __bool__(data, fname_cache) <=> __len__(data, fname_cache) > 0
C8_Witness ==
    /\ (DOMAIN data) \ fname_cache # {}
    /\ fname_cache \ (DOMAIN data) # {}
    /\ (DOMAIN data) \cap fname_cache # {}
    /\ __len__(data, fname_cache) = 3
    /\ __bool__(data, fname_cache)

\* C9 as stated (under SpecNorm): normalizing the result of normalize_key
\* gives that result again, for every raw key.
C9_IdempotentNormalization ==
    Len(nout) = 2 => nout[2] = nout[1]

\* a drop of a key that was cached and is not in the file name snapshot
DropOfCached ==
    /\ last.op = "drop"
    /\ last.old # NotCached
    /\ last.key \notin fname_cache

\* C10 as stated: after drop(k) of a cached top-level key k that is not in the
\* snapshot, k in mapping probes the filesystem and tells whether the file
\* exists.
C10_DropThenProbe ==
    (DropOfCached /\ ~HasSep(last.key)) =>
        /\ ContainsLastKey.reads = 1
        /\ ContainsLastKey.val <=> isfile(fs, last.key)

\* C10 as amended: after drop(k) of a cached key k that is not in the
\* snapshot, k in mapping no longer reports the cached entry: for a deep key
\* it probes the filesystem and tells whether the file exists, for a
\* top-level key it is false without any filesystem access.
C10_DropThenContains ==
    DropOfCached =>
        /\ last.key \notin DOMAIN data
        /\ IF HasSep(last.key)
           THEN /\ ContainsLastKey.reads = 1
                /\ ContainsLastKey.val <=> isfile(fs, last.key)
           ELSE /\ ContainsLastKey.reads = 0
                /\ ~ContainsLastKey.val
C10_Witness ==
    /\ DropOfCached /\ ~HasSep(last.key)
    /\ isfile(fs, last.key)
    /\ ~ContainsLastKey.val

\* C11 as stated: after clear() self.data is empty and _fname_cache holds the
\* names of the entries directly in root at the time of the call.
C11_ClearListsChildren ==
    last.op = "clear" =>
        /\ data = << >>
        /\ fname_cache = Children(fs)

\* C11 as amended (under SpecRoot): after clear() self.data is empty and
\* _fname_cache holds the names of the entries directly in root that are not
\* directories, as they are at the time of the call, and nothing when root is
\* missing or is no directory; keys() is that set, and k in mapping tells for
\* every top-level name whether its file exists.
C11_ClearListsFiles ==
    last.op = "clear" =>
        /\ data = << >>
        /\ fname_cache = {n \in Children(fs) : ~IsDir(fs, n)}
        /\ RootState(fs) # Directory => fname_cache = {}
        /\ keys(data, fname_cache) = {n \in Children(fs) : ~IsDir(fs, n)}
        /\ \A n \in {ka, kb} :
              __contains__(data, fname_cache, fs, n).val <=> isfile(fs, n)
C11_Witness ==
    /\ last.op = "clear"
    /\ nchanges = 1
    /\ RootState(fs) = Directory
    /\ fs[ka] = Absent
    /\ IsDir(fs, <<"d">>)
    /\ fname_cache = {}

\* what a lookup of k that suppresses every failure gives, by the entry d holds
\* and the file below root
ValueOf(d, f, k) ==
    IF k \in DOMAIN d THEN d[k]
    ELSE IF isfile(f, k) /\ Lookup(f, k) # Unreadable
    THEN self_deserialize_value(k, Lookup(f, k))
    ELSE None

\* C12 (under SpecBulk): get_attributes(k1, ..., kn), with read errors
\* suppressed as by default, returns a list of exactly n pairs, the i-th being
\* (normalize_key(ki), the value of ki), in the order of the arguments and
\* with duplicates kept; a DMIIDInfo over vendor = "Acme Corp\n" and
\* serial = "Not Available\n" returns [(vendor, "Acme Corp"), (serial, None)]
\* for get_attributes(vendor, serial).
C12_BulkStep ==
    (last'.op = "get_attributes" /\ last'.nofail) =>
        /\ last'.kind = "value"
        /\ Len(last'.items) = Len(last'.keys)
        /\ \A i \in DOMAIN last'.keys :
              /\ last'.items[i][1] = Normalize(last'.keys[i])
              /\ last'.items[i][2] = ValueOf(data, fs, Normalize(last'.keys[i]))
        /\ (/\ cls = "DMIIDInfo" /\ data = << >>
            /\ last'.keys = <<kvendor, kserial>>
            /\ fs[kvendor] = AcmeCorp /\ fs[kserial] = NotAvailable)
           => last'.items = <<(<<kvendor, <<"A", "c", "m", "e", " ", "C", "o", "r", "p">> >>),
                              (<<kserial, None>>)>>
C12_BulkInOrder == [][C12_BulkStep]_vars
C12_Witness ==
    /\ last.op = "get_attributes" /\ last.nofail
    /\ cls = "DMIIDInfo"
    /\ fs[kvendor] = AcmeCorp /\ fs[kserial] = NotAvailable
    /\ last.keys = <<kvendor, kserial>>
    /\ last.items = <<(<<kvendor, <<"A", "c", "m", "e", " ", "C", "o", "r", "p">> >>),
                      (<<kserial, None>>)>>

\* the normalized keys of the bulk retrieval last made
BulkKeysOfLast == [i \in DOMAIN last.keys |-> Normalize(last.keys[i])]
IsBulk(c) == c.op \in {"get_attributes", "items"}

\* the keys of the bulk retrieval last made that are not cached and whose
\* file is in one of the states sts
Uncached(sts) ==
    {i \in DOMAIN last.keys :
        /\ BulkKeysOfLast[i] \notin DOMAIN data
        /\ Lookup(fs, BulkKeysOfLast[i]) \in sts}

\* C13 as stated (under SpecBulk): get_attributes and items suppress
\* IOError/OSError and KeyError by default, giving None for the key and going
\* on; called with nofail=False they raise on a file that cannot be read and
\* on a file that is missing.
C13_BulkFailuresOverridable ==
    IsBulk(last) =>
        IF last.nofail
        THEN /\ last.kind = "value"
             /\ \A i \in Uncached({Absent, Unreadable}) : last.items[i][2] = None
        ELSE Uncached({Absent, Unreadable}) # {} => last.kind # "value"

\* C13 as amended (under SpecBulk): get_attributes and items suppress
\* IOError/OSError and KeyError by default, giving None for the key and going
\* on with the keys that follow; called with nofail=False they raise the
\* IOError/OSError of a file that cannot be read and return nothing, while a
\* missing file still gives None for its key.
C13_BulkSuppression ==
    IsBulk(last) =>
        /\ last.nofail => last.kind = "value"
        /\ last.kind = "value" =>
              /\ Len(last.items) = Len(last.keys)
              /\ \A i \in DOMAIN last.keys :
                    last.items[i][2] =
                        IF BulkKeysOfLast[i] \in DOMAIN data
                        THEN data[BulkKeysOfLast[i]] ELSE None
        /\ ~last.nofail =>
              IF Uncached({Unreadable}) # {}
              THEN last.kind = "IOError" /\ last.items = <<>>
              ELSE last.kind = "value"
C13_Witness ==
    /\ last.op = "get_attributes" /\ ~last.nofail
    /\ last.kind = "value"
    /\ Len(last.keys) = 2
    /\ Uncached({Absent}) = {1}
    /\ last.items[1][2] = None
    /\ last.items[2][2] # None

\* the step is drop(k), clear(), or neither
IsDropOf(c, k) == c.op = "drop" /\ c.key = k
IsRefreshOf(c, k) == c.op = "fetch" /\ c.refresh /\ c.key = k

\* C14 as stated (under SpecAll): a key in self.data stays in self.data over
\* every step that is neither drop of that key nor clear().
C14_PersistUntilDropStep ==
    \A k \in DOMAIN data :
        k \in DOMAIN data' \/ IsDropOf(last', k) \/ last'.op = "clear"
C14_PersistUntilDrop == [][C14_PersistUntilDropStep]_vars

\* C14 as amended (under SpecAll): a key in self.data stays in self.data over
\* every step (membership test, enumeration, lookup, fetch, bulk retrieval,
\* filesystem change) that is neither drop of that key, nor clear(), nor a
\* fetch of that key with refresh; a fetch with refresh removes the entry and
\* puts it back only if the read succeeds and bypass is off.
C14_PersistUntilRemovedStep ==
    \A k \in DOMAIN data :
        \/ k \in DOMAIN data'
        \/ IsDropOf(last', k)
        \/ last'.op = "clear"
        \/ /\ IsRefreshOf(last', k)
           /\ last'.bypass \/ last'.err # ""
C14_PersistUntilRemoved == [][C14_PersistUntilRemovedStep]_vars
C14_Witness ==
    /\ last.op = "items"
    /\ fs[ka] = Absent
    /\ ka \in DOMAIN data
    /\ last.items = <<(<<ka, data[ka]>>)>>

\* C15 (under SpecAll): _fname_cache changes in no step but clear(), whatever
\* became of the directory and whatever a read found there; no operation of
\* the mapping changes the directory, whose path self.root is fixed at
\* construction (the model keeps no variable for it).
C15_SnapshotFrameStep ==
    /\ fname_cache' # fname_cache => last'.op = "clear"
    /\ fs' # fs => last'.op = "fschange"
C15_SnapshotFrame == [][C15_SnapshotFrameStep]_vars
C15_Witness ==
    /\ last.op = "getitem" /\ last.kind = "value" /\ last.reads = 1
    /\ last.key = kb
    /\ kb \in DOMAIN data
    /\ fname_cache = {ka}

\* a fetch whose read failed with an error other than ENOENT
FailedRead(c) == c.op = "fetch" /\ c.reads = 1 /\ c.err \notin {"", "ENOENT"}

\* C16 (under SpecRoot): a _getitem(k, nofail=True, nofail_fallback=F) whose read fails with
\* an error other than ENOENT returns F, a _getitem(k, nofail=False) raises
\* the error; either way nothing is stored in self.data: no entry is added or
\* changed, F is not cached, and unless an older entry of k is still there
\* (bypass without refresh) the next plain _getitem(k) reads the file again.
C16_SuppressedFailureStep ==
    FailedRead(last') =>
        /\ IF last'.nofail
           THEN last'.kind = "value" /\ last'.val = Fallback
           ELSE last'.kind = "IOError"
        /\ \A x \in DOMAIN data' : x \in DOMAIN data /\ data'[x] = data[x]
        /\ Cached(data', last'.key) # Fallback
        /\ last'.key \notin DOMAIN data' =>
              _getitem(data', fs', last'.key, FALSE, FALSE, FALSE, None).reads = 1
        /\ last'.key \in DOMAIN data' => last'.bypass /\ ~last'.refresh
C16_SuppressedFailure == [][C16_SuppressedFailureStep]_vars
C16_Witness ==
    /\ FailedRead(last) /\ last.nofail /\ ~last.bypass
    /\ last.err = "EACCES"
    /\ last.val = Fallback
    /\ last.key \notin DOMAIN data

\* C17 as stated: a _getitem(k, bypass=True, ...) reads the file and leaves
\* self.data exactly as it was, whether the read succeeds or fails and
\* whatever refresh, nofail and the fallback are.
C17_BypassLeavesCacheStep ==
    (last'.op = "fetch" /\ last'.bypass) =>
        /\ last'.reads = 1
        /\ data' = data
C17_BypassLeavesCache == [][C17_BypassLeavesCacheStep]_vars

\* C17 as amended: a _getitem(k, bypass=True, ...) reads the file, adds no
\* entry to self.data and changes none, whether the read succeeds or fails
\* and whatever nofail and the fallback are; without refresh self.data is
\* left exactly as it was, with refresh the entry of k is removed and not
\* put back.
C17_BypassStoresNothingStep ==
    (last'.op = "fetch" /\ last'.bypass) =>
        /\ last'.reads = 1
        /\ \A x \in (DOMAIN data) \cup (DOMAIN data') :
              Cached(data', x) = IF x = last'.key /\ last'.refresh
                                 THEN NotCached ELSE Cached(data, x)
C17_BypassStoresNothing == [][C17_BypassStoresNothingStep]_vars
C17_Witness ==
    /\ last.op = "fetch" /\ last.bypass /\ last.refresh
    /\ last.old # NotCached
    /\ last.kind = "value" /\ last.err = ""
    /\ last.key \notin DOMAIN data
    /\ data # << >>

\* C18 (under SpecRoot): k in mapping, for the normalized key k, is true when
\* k is in self.data, else true when k is in _fname_cache, else for a key with
\* a separator what os.path.isfile tells of root/k, else false; a key without
\* separator causes no filesystem access, and neither cache is changed.
C18_ContainsStep ==
    last'.op = "contains" =>
        /\ data' = data
        /\ fname_cache' = fname_cache
        /\ last'.val =
              IF last'.key \in DOMAIN data \/ last'.key \in fname_cache THEN True
              ELSE IF /\ HasSep(last'.key)
                      /\ Lookup(fs, last'.key) \in Texts \cup {Unreadable}
              THEN True
              ELSE False
        /\ last'.reads =
              IF /\ last'.key \notin DOMAIN data
                 /\ last'.key \notin fname_cache
                 /\ HasSep(last'.key)
              THEN 1 ELSE 0
C18_ContainsDecision == [][C18_ContainsStep]_vars
C18_Witness ==
    /\ last.op = "contains"
    /\ ~HasSep(last.key)
    /\ Lookup(fs, last.key) \in Texts
    /\ last.val = False
    /\ last.reads = 0

\* C19 (under SpecAll): drop(r) removes the entry of normalize_key(r) from
\* self.data if there is one and does nothing if there is none; the other
\* entries and _fname_cache stay as they are, and a second drop(r) changes
\* nothing more.  clear() is the only operation that changes both caches.
C19_DropStep ==
    /\ last'.op = "drop" =>
          /\ DOMAIN data' = (DOMAIN data) \ {last'.key}
          /\ \A x \in DOMAIN data' : data'[x] = data[x]
          /\ last'.key \notin DOMAIN data => data' = data
          /\ fname_cache' = fname_cache
          /\ _drop(data', last'.key) = data'
    /\ (data' # data /\ fname_cache' # fname_cache) => last'.op = "clear"
C19_DropExactlyOne == [][C19_DropStep]_vars
C19_Witness ==
    /\ last.op = "drop"
    /\ last.old # NotCached
    /\ last.key = ka
    /\ DOMAIN data = {kb}
    /\ fname_cache = {ka}

\* C20 (under SpecPublic): whatever raw keys __getitem__, get,
\* get_attributes, items, values, drop and clear are called with, every key
\* of self.data is a fixed point of normalize_key.
C20_OnlyCanonicalKeys ==
    \A k \in DOMAIN data : normalize_key(k) = k
C20_Witness ==
    /\ last.op = "get_attributes" /\ last.nofail
    /\ last.keys = <<(<<curdir, sep, "b">>), (<<sep>>)>>
    /\ last.items = <<(<<kb, <<"v">> >>), (<<(<<>>), None>>)>>
    /\ DOMAIN data = {kb, kab}


-----------------------------------------------------------------------------
(* C21 (under SpecSteps) *)

\* C21: file handles are scoped to a single read.  When no _getitem call is
\* running (it has returned or failed, whether opening failed, reading failed
\* or the value was deserialized and returned), no handle is open; at most one
\* handle is open at any time, and only between the open and the end of the
\* with block of the read step.
C21_HandlesScoped ==
    /\ handles \in {0, 1}
    /\ frame.pc = "idle" => handles = 0
    /\ handles = 1 <=> frame.pc \in {"read", "exit"}

\* a read that failed after the file was opened has left _getitem, and the
\* handle is closed
C21_Witness ==
    /\ frame.pc = "idle"
    /\ last.op = "fetch" /\ last.err \in ReadErrors
    /\ handles = 0

-----------------------------------------------------------------------------
(* C22 (under SpecAlias) *)

\* the section a handle stands for: an int by DMIDECODE_HANDLE_MAP, a str by
\* its number if it is one, else by its name in upper case; None if there is
\* no such section
SectionOf(handle) ==
    IF handle.type = "int"
    THEN (IF handle.int \in DOMAIN DMIDECODE_HANDLE_MAP
          THEN DMIDECODE_HANDLE_MAP[handle.int] ELSE None)
    ELSE IF handle.type # "str" THEN None
    ELSE IF int16(handle.str).ok
    THEN (IF int16(handle.str).val \in DOMAIN DMIDECODE_HANDLE_MAP
          THEN DMIDECODE_HANDLE_MAP[int16(handle.str).val] ELSE None)
    ELSE IF upper(handle.str) \in DOMAIN ATTR_KEY_ALIAS_MAP
    THEN upper(handle.str) ELSE None

\* whether the pair (handle, name) resolves, and the alias it resolves to
Resolves(handle, name) ==
    /\ SectionOf(handle) # None
    /\ name \in DOMAIN ATTR_KEY_ALIAS_MAP[SectionOf(handle)]
AliasOf(handle, name) == ATTR_KEY_ALIAS_MAP[SectionOf(handle)][name]

\* the path segments of a normalized key
Segments(attr_normkey) == split(attr_normkey, <<>>, <<>>)

\* a str key: the alias if the normalized key has two segments that resolve,
\* else the normalized key (which must not be empty), and never ValueError
C22_StrKey(attr_normkey, segs, r) ==
    IF Len(segs) = 2 /\ Resolves(StrHandle(segs[1]), segs[2])
    THEN r = Returns(AliasOf(StrHandle(segs[1]), segs[2]))
    ELSE IF attr_normkey = <<>> THEN r.kind = "AssertionError"
    ELSE r = Returns(attr_normkey)

\* a pair key: the alias if the pair resolves, else ValueError
C22_PairKey(handle, name, r) ==
    IF Resolves(handle, name) THEN r = Returns(AliasOf(handle, name))
    ELSE r.kind = "ValueError"

\* C22: normalize_key of DMIInfo.  A str key is default-normalized; if the
\* normalized key has exactly two path segments and they resolve as a pair
\* (section by name in any case or by hex/integer handle, field by the
\* section's alias table), the result is the alias, otherwise the normalized
\* key is kept and no ValueError (InvalidKey) is raised; keys of one segment
\* or of three and more keep their normalized form.  A pair key that does not
\* resolve fails with ValueError.
C22_AliasNormalization ==
    nout # <<>> =>
        IF nin.pair THEN C22_PairKey(nin.handle, nin.name, nout[1])
        ELSE C22_StrKey(normalize_key(nin.str),
                        Segments(normalize_key(nin.str)), nout[1])

-----------------------------------------------------------------------------
(* C23 (under Spec) *)

\* d without the entry of attr_normkey
Without(d, attr_normkey) == [k \in (DOMAIN d) \ {attr_normkey} |-> d[k]]

\* C23: a refresh read is not atomic with respect to failure.  When k is
\* cached and _getitem(k, refresh=True) fails (KeyError, or another error that
\* is raised or suppressed into the fallback), the entry of k is gone after
\* the call: self.data is what it was without k, not what it was before the
\* call, and k is in keys() only if the file name snapshot lists it.
C23_RefreshFailureStep ==
    (/\ last'.op = "fetch" /\ last'.refresh /\ last'.err # ""
     /\ last'.key \in DOMAIN data)
    => /\ last'.key \notin DOMAIN data'
       /\ data' = Without(data, last'.key)
       /\ data' # data
       /\ last'.key \in keys(data', fname_cache') <=> last'.key \in fname_cache'
C23_RefreshNotAtomic == [][C23_RefreshFailureStep]_vars

\* a refresh read of a cached key has failed and returned the fallback; the
\* entry is gone
C23_Witness ==
    /\ last.op = "fetch" /\ last.refresh /\ last.nofail
    /\ last.old # NotCached
    /\ last.err \notin {"", "ENOENT"} /\ last.kind = "value"
    /\ last.key \notin DOMAIN data

====
